---------------------------- MODULE Spec2Model ----------------------------
(***************************************************************************)
(* A model of gittyup: the repository scanner (scanner.py) and the update   *)
(* loop of the command-line entry point (cli.py, git_operations.py).        *)
(*                                                                          *)
(* Two specifications share the module:                                     *)
(*   ScanSpec  one call of RepositoryScanner.scan over a directory tree     *)
(*   Spec      one run of cli.main from the git check to the exit code      *)
(***************************************************************************)
EXTENDS Integers, Sequences, FiniteSets

VARIABLES
    \* ---- the directory tree and the scanner's constructor arguments
    rootKind,          \* what root_path is: "missing", "file" or "dir"
    entries,           \* node -> [kind, cls, git]: the directory entries
    max_depth,         \* RepositoryScanner.max_depth
    exclude_patterns,  \* RepositoryScanner.exclude_patterns (a set of names)
    \* ---- one call of scan()
    scan_pc,           \* "init", "scanning" or "done"
    stack,             \* the active _scan_directory frames, innermost last
    repositories,      \* the list scan() hands to _scan_directory
    scan_result,       \* what scan() returned or raised
    visits,            \* node -> number of _scan_directory bodies run on it
    listed,            \* directories whose iterdir() produced its entries
    faulted,           \* [dir, at]: where an OSError was raised in the scan
    \* ---- one run of cli.main
    pc,                \* position in main
    dry_run,           \* --dry-run
    skip_dirty,        \* cfg.get("skip_dirty")
    strategy,          \* the "strategy" key of the configuration
    scans,             \* what each call of scanner.scan() gave: -1 for ScanError,
                       \* else the number of repositories
    found,             \* len(repositories) returned by scanner.scan()
    dirty,             \* the repositories found whose working tree has
                       \* uncommitted changes
    cur,               \* index of the repository the for loop is at
    commands,          \* the git commands issued: [repo, cmd, reply], in order
    outcomes,          \* what main reported per repository: [repo, state, message]
    updated_count,
    skipped_count,
    error_count,
    summary_printed,   \* output.print_summary was called
    exit_code,         \* process exit status, -1 while running
    \* ---- a SummaryStats object
    stats,             \* its counters and its results list
    added,             \* the results passed to add_result, in call order
    \* ---- the Config class and the Config object main resolves
    exclude_list,      \* the list object DEFAULTS["exclude_patterns"]; copy() is
                       \* shallow, so every config["exclude_patterns"] is this list
    config,            \* self.config, but for its "exclude_patterns" entry
    cfg_pc,            \* how far the resolution of the object has got
    instances,         \* the Config objects constructed in this process
    list_at_new,       \* exclude_list when the object was constructed
    merged             \* what was merged into the object: [from, dict], in order

scanVars == <<rootKind, entries, max_depth, exclude_patterns, scan_pc, stack,
              repositories, scan_result, visits, listed, faulted>>
mainVars == <<pc, dry_run, skip_dirty, strategy, scans, found, dirty, cur, commands,
              outcomes,
              updated_count, skipped_count, error_count, summary_printed,
              exit_code>>
configVars == <<exclude_list, config, cfg_pc, instances, list_at_new, merged>>
statsVars == <<stats, added>>
vars == <<scanVars, mainVars, statsVars, configVars>>

---------------------------------------------------------------------------
(* Bounds of the model.                                                     *)

NumEntries == 3      \* directory entries below the root
MaxDepthLimit == 2   \* max_depth ranges over 0..MaxDepthLimit
MaxRepos == 2        \* repositories a scan hands to the update loop
MaxResults == 2      \* results added to one SummaryStats
MaxCommits == 2      \* commits_pulled ranges over 0..MaxCommits
MaxConfigs == 2      \* Config objects constructed in one process

---------------------------------------------------------------------------
(* The directory tree.  Node 0 is root_path; entries 1 and 2 lie in the     *)
(* root, entry n > 2 lies in entry n - 2.                                   *)

Root == 0
Nodes == 0..NumEntries
Parent(n) == IF n <= 2 THEN Root ELSE n - 2
Children(n) == {c \in Nodes \ {Root} : Parent(c) = n}

RECURSIVE Depth(_)
Depth(n) == IF n = Root THEN 0 ELSE Depth(Parent(n)) + 1

RECURSIVE Ancestors(_)
Ancestors(n) == IF n = Root THEN {} ELSE {Parent(n)} \cup Ancestors(Parent(n))

\* Names an entry can carry, by the class of the name.
BaseNames == <<"beta", "alpha", "gamma", "delta", "omega">>
HiddenNames == <<".beta", ".alpha", ".gamma", ".delta", ".omega">>
ExcludedNames == <<"build", "dist", "venv", "node_modules", "__pycache__">>

\* str ordering (by code point) of every name of the model, ascending.
CodePointOrder ==
    <<".alpha", ".beta", ".delta", ".gamma", ".omega", "__pycache__",
      "alpha", "beta", "build", "delta", "dist", "gamma", "node_modules",
      "omega", "venv">>

\* The shapes a directory entry can take: what it is, the class of its name
\* and what its ".git" child is.
EntryFlavours ==
    {[kind |-> "absent", cls |-> "normal", git |-> "none"],
     [kind |-> "file", cls |-> "normal", git |-> "none"],
     [kind |-> "dir", cls |-> "normal", git |-> "none"],
     [kind |-> "dir", cls |-> "normal", git |-> "file"],
     [kind |-> "dir", cls |-> "normal", git |-> "dir"],
     [kind |-> "dir", cls |-> "hidden", git |-> "none"],
     [kind |-> "dir", cls |-> "hidden", git |-> "dir"],
     [kind |-> "dir", cls |-> "excluded", git |-> "none"],
     [kind |-> "dir", cls |-> "excluded", git |-> "dir"],
     [kind |-> "link", cls |-> "normal", git |-> "none"],
     [kind |-> "link", cls |-> "normal", git |-> "dir"]}

RootFlavours ==
    {[kind |-> "dir", cls |-> "normal", git |-> g] : g \in {"none", "file", "dir"}}

Present(n) == entries[n].kind # "absent"
\* entry.is_dir() follows symbolic links: true of directories and of links
\* to directories.
IsDir(n) == entries[n].kind \in {"dir", "link"}
IsSymlink(n) == entries[n].kind = "link"

NameOf(n) ==
    LET i == ((n - 1) % Len(BaseNames)) + 1
    IN  CASE entries[n].cls = "normal" -> BaseNames[i]
          [] entries[n].cls = "hidden" -> HiddenNames[i]
          [] entries[n].cls = "excluded" -> ExcludedNames[i]

RECURSIVE PathOf(_)
PathOf(n) == IF n = Root THEN <<>> ELSE Append(PathOf(Parent(n)), NameOf(n))

\* A tree is well formed when only directories have entries.
WellFormed(e) ==
    \A n \in Nodes \ {Root} :
        e[n].kind # "absent" => e[Parent(n)].kind \in {"dir", "link"}


---------------------------------------------------------------------------
(* RepositoryScanner                                                        *)

DefaultExcludes ==
    {"node_modules", "__pycache__", ".venv", "venv", ".tox", "build", "dist"}

\* __init__: the caller's patterns, with the defaults always added.
ScannerExcludes(arg) == arg \cup DefaultExcludes

\* entry.name.startswith(".")
StartsWithDot(name) == \E i \in 1..Len(HiddenNames) : HiddenNames[i] = name

\* git_dir.exists() and git_dir.is_dir()
IsGitRepository(d) == entries[d].git # "none" /\ entries[d].git = "dir"

\* current_depth > self.max_depth
DepthExceeded(depth) == depth > max_depth

\* The loop without its test for symbolic links.
SkipEntryFollowsLinks(e) ==
    \/ ~IsDir(e)
    \/ NameOf(e) \in exclude_patterns
    \/ StartsWithDot(NameOf(e))

SkipEntryKeepsHidden(e) ==
    \/ ~IsDir(e)
    \/ IsSymlink(e)
    \/ NameOf(e) \in exclude_patterns

\* The four `continue` tests of the loop over directory.iterdir().
SkipEntry(e) ==
    \/ ~IsDir(e)
    \/ IsSymlink(e)
    \/ NameOf(e) \in exclude_patterns
    \/ StartsWithDot(NameOf(e))

\* What one body of _scan_directory does with directory d at the given
\* depth: whether it appends d to the list, and how it goes on ("return",
\* "list" the entries, "swallowed" for an exception its own except clauses
\* catch, "raise" for one that leaves the call).
\* probeRaises: the stat behind git_dir.exists() raises an OSError that
\* pathlib passes on (EACCES, when d cannot be searched); that test stands
\* before the try block.  listRaises: directory.iterdir() raises
\* PermissionError or another OSError, inside the try block.
Step(r, t) == [record |-> r, then |-> t]

ScanDirectoryDescends(d, depth, probeRaises, listRaises) ==
    IF depth > max_depth THEN Step(FALSE, "return")
    ELSE IF probeRaises THEN Step(FALSE, "raise")
    ELSE IF listRaises THEN Step(entries[d].git = "dir", "swallowed")
    ELSE Step(entries[d].git = "dir", "list")

ScanDirectory(d, depth, probeRaises, listRaises) ==
    IF DepthExceeded(depth) THEN Step(FALSE, "return")
    ELSE IF probeRaises THEN Step(FALSE, "raise")
    ELSE IF IsGitRepository(d) THEN Step(TRUE, "return")
    ELSE IF listRaises THEN Step(FALSE, "swallowed")
    ELSE Step(FALSE, "list")

\* Path.__lt__: the parts are compared left to right, each as a str.
Rank(name) == CHOOSE i \in 1..Len(CodePointOrder) : CodePointOrder[i] = name

RECURSIVE PathLess(_, _)
PathLess(p, q) ==
    IF p = <<>> THEN q # <<>>
    ELSE IF q = <<>> THEN FALSE
    ELSE IF Head(p) = Head(q) THEN PathLess(Tail(p), Tail(q))
    ELSE Rank(Head(p)) < Rank(Head(q))

RECURSIVE InsertPath(_, _)
InsertPath(p, s) ==
    IF s = <<>> THEN <<p>>
    ELSE IF PathLess(p, Head(s)) THEN <<p>> \o s
    ELSE <<Head(s)>> \o InsertPath(p, Tail(s))

RECURSIVE SortPaths(_)
SortPaths(s) ==
    IF s = <<>> THEN <<>>
    ELSE InsertPath(s[Len(s)], SortPaths(SubSeq(s, 1, Len(s) - 1)))

SortedNot(s) == s

\* sorted(repositories)
Sorted(s) == SortPaths(s)

NoResult == [kind |-> "none", repos |-> <<>>, msg |-> ""]
Returned(s) == [kind |-> "ok", repos |-> s, msg |-> ""]
ScanError(m) == [kind |-> "ScanError", repos |-> <<>>, msg |-> m]

RootCheckExistsOnly ==
    IF rootKind = "missing" THEN "Path does not exist" ELSE "ok"

\* The two tests scan() makes on root_path before it starts.
RootCheck ==
    IF rootKind = "missing" THEN "Path does not exist"
    ELSE IF rootKind # "dir" THEN "Path is not a directory"
    ELSE "ok"

\* A call _scan_directory(d, depth, repositories) made while the frames of
\* `callers` are active.  An exception leaving the call reaches the try
\* block of the innermost caller, whose except clauses end that caller's
\* loop; with no caller left it reaches scan(), which raises ScanError.
Call(d, depth, callers) ==
    \E probeRaises \in BOOLEAN, listRaises \in BOOLEAN,
       cls \in {"PermissionError", "OSError"} :
        LET s == ScanDirectory(d, depth, probeRaises, listRaises)
            o == s.then
            n == Len(callers)
        IN  /\ visits' = [visits EXCEPT ![d] = @ + 1]
            /\ repositories' =
                   IF s.record THEN Append(repositories, PathOf(d))
                   ELSE repositories
            /\ listed' = IF o = "list" THEN listed \cup {d} ELSE listed
            /\ faulted' =
                   CASE o = "raise" -> faulted \cup {[dir |-> d, at |-> "probe"]}
                     [] o = "swallowed" -> faulted \cup {[dir |-> d, at |-> "list"]}
                     [] OTHER -> faulted
            /\ stack' =
                   CASE o = "list" ->
                            Append(callers,
                                   [dir |-> d, depth |-> depth,
                                    todo |-> {c \in Children(d) : Present(c)}])
                     [] o = "raise" /\ n > 0 -> SubSeq(callers, 1, n - 1)
                     [] OTHER -> callers
            /\ IF o = "raise" /\ n = 0
               THEN /\ scan_pc' = "done"
                    /\ scan_result' =
                           ScanError(IF cls = "PermissionError"
                                     THEN "Permission denied"
                                     ELSE "Error during scan")
               ELSE /\ scan_pc' = "scanning"
                    /\ scan_result' = scan_result

\* scan(), up to and including the call _scan_directory(root_path, 0, ...).
ScanStart ==
    /\ scan_pc = "init"
    /\ IF RootCheck # "ok"
       THEN /\ scan_pc' = "done"
            /\ scan_result' = ScanError(RootCheck)
            /\ UNCHANGED <<stack, repositories, visits, listed, faulted>>
       ELSE Call(Root, 0, <<>>)
    /\ UNCHANGED <<rootKind, entries, max_depth, exclude_patterns, mainVars, statsVars, configVars>>

\* One turn of the loop `for entry in directory.iterdir()` of the innermost
\* frame; iterdir() yields the entries in no particular order.
IterEntry ==
    /\ scan_pc = "scanning"
    /\ stack # <<>>
    /\ LET n == Len(stack)
           top == stack[n]
       IN  \E e \in top.todo :
               LET rest == [stack EXCEPT ![n].todo = @ \ {e}]
               IN  IF SkipEntry(e)
                   THEN /\ stack' = rest
                        /\ UNCHANGED <<scan_pc, repositories, scan_result,
                                       visits, listed, faulted>>
                   ELSE Call(e, top.depth + 1, rest)
    /\ UNCHANGED <<rootKind, entries, max_depth, exclude_patterns, mainVars, statsVars, configVars>>

\* The loop of the innermost frame is exhausted: _scan_directory returns.
ReturnFromDirectory ==
    /\ scan_pc = "scanning"
    /\ stack # <<>>
    /\ stack[Len(stack)].todo = {}
    /\ stack' = SubSeq(stack, 1, Len(stack) - 1)
    /\ UNCHANGED <<scan_pc, repositories, scan_result, visits, listed, faulted>>
    /\ UNCHANGED <<rootKind, entries, max_depth, exclude_patterns, mainVars, statsVars, configVars>>

\* The outermost _scan_directory has returned: return sorted(repositories).
ScanReturn ==
    /\ scan_pc = "scanning"
    /\ stack = <<>>
    /\ scan_pc' = "done"
    /\ scan_result' = Returned(Sorted(repositories))
    /\ UNCHANGED <<stack, repositories, visits, listed, faulted>>
    /\ UNCHANGED <<rootKind, entries, max_depth, exclude_patterns, mainVars, statsVars, configVars>>

\* The custom patterns a caller passes: none, or the name "alpha".
ExcludeArgs == {{}, {"alpha"}}

MainIdle ==
    /\ pc = "idle"
    /\ dry_run = FALSE
    /\ skip_dirty = TRUE
    /\ strategy = "pull"
    /\ scans = <<>>
    /\ found = 0
    /\ dirty = {}
    /\ cur = 0
    /\ commands = <<>>
    /\ outcomes = <<>>
    /\ updated_count = 0
    /\ skipped_count = 0
    /\ error_count = 0
    /\ summary_printed = FALSE
    /\ exit_code = -1

\* SummaryStats(): every counter zero, no results
EmptyStats ==
    [repos_found |-> 0, repos_updated |-> 0, repos_already_up_to_date |-> 0,
     repos_skipped |-> 0, repos_failed |-> 0, duration_seconds |-> 0,
     results |-> <<>>]

StatsIdle ==
    /\ stats = EmptyStats
    /\ added = <<>>

\* Config.DEFAULTS["exclude_patterns"] as the class statement builds it
DefaultExcludeList ==
    <<"node_modules", "venv", ".venv", "__pycache__", ".tox", "build", "dist">>

\* The keys of Config.DEFAULTS that hold one value, and their values.
ScalarDefaults ==
    [max_depth |-> 10, skip_dirty |-> TRUE, verbose |-> FALSE, quiet |-> FALSE]

ConfigIdle ==
    /\ exclude_list = DefaultExcludeList
    /\ config = ScalarDefaults
    /\ cfg_pc = "idle"
    /\ instances = 0
    /\ list_at_new = DefaultExcludeList
    /\ merged = <<>>

ScanInit ==
    /\ rootKind \in {"missing", "file", "dir"}
    /\ entries \in [Nodes -> EntryFlavours \cup RootFlavours]
    /\ entries[Root] \in RootFlavours
    /\ \A n \in Nodes \ {Root} : entries[n] \in EntryFlavours
    /\ WellFormed(entries)
    /\ rootKind # "dir" =>
           /\ entries[Root].git = "none"
           /\ \A n \in Nodes \ {Root} : entries[n].kind = "absent"
    /\ max_depth \in 0..MaxDepthLimit
    /\ \E arg \in ExcludeArgs : exclude_patterns = ScannerExcludes(arg)
    /\ scan_pc = "init"
    /\ stack = <<>>
    /\ repositories = <<>>
    /\ scan_result = NoResult
    /\ visits = [n \in Nodes |-> 0]
    /\ listed = {}
    /\ faulted = {}
    /\ MainIdle
    /\ StatsIdle
    /\ ConfigIdle

ScanNext == ScanStart \/ IterEntry \/ ReturnFromDirectory \/ ScanReturn

ScanSpec == ScanInit /\ [][ScanNext]_vars

\* scan() is one thread of control: while a step of it is possible, it is
\* taken.
ScanFairSpec == ScanSpec /\ WF_vars(ScanNext)


---------------------------------------------------------------------------
(* GitOperations: what each wrapper makes of the answer of its subprocess.  *)
(* An answer is [kind, rc, stdout, stderr]; kind is "exit" when the process *)
(* ran to its end, "timeout" for subprocess.TimeoutExpired, "suberror" for  *)
(* another subprocess.SubprocessError and "oserror" for an OSError raised   *)
(* while launching (git or the working directory is gone).                  *)

Exit(rc, out, err) == [kind |-> "exit", rc |-> rc, stdout |-> out, stderr |-> err]
Raised(k) == [kind |-> k, rc |-> 0, stdout |-> "", stderr |-> ""]

RaisedReplies == {Raised("timeout"), Raised("suberror"), Raised("oserror")}

\* UpdateStrategy
UpdateStrategies == {"pull", "fetch", "rebase"}

\* The argument list subprocess.run is given by each wrapper.
Argv(cmd) ==
    CASE cmd = "version" -> <<"git", "--version">>
      [] cmd = "status" -> <<"git", "status", "--porcelain">>
      [] cmd = "upstream" -> <<"git", "rev-parse", "--abbrev-ref", "@{upstream}">>
      [] cmd = "pull" -> <<"git", "pull", "--all">>

\* `git --version`
VersionReplies == {Exit(0, "git version 2.43.0", ""), Exit(1, "", "")} \cup RaisedReplies

\* `git status --porcelain`
StatusReplies ==
    {Exit(0, "", ""), Exit(0, " ", ""), Exit(0, " M README.md", ""),
     Exit(1, "", "fatal: not a git repository")} \cup RaisedReplies

\* `git rev-parse --abbrev-ref @{upstream}`
UpstreamReplies ==
    {Exit(0, "origin/main", ""), Exit(1, "", "fatal: no upstream configured")}
        \cup RaisedReplies

\* `git pull --all`
PullReplies ==
    {Exit(0, "Already up to date.", ""),
     Exit(0, "Already up-to-date.", ""),
     Exit(0, "Updating 1234abc..5678def Fast-forward", ""),
     Exit(1, "", "fatal: not a git repository "),
     Exit(1, "CONFLICT (content): Merge conflict", " "),
     Exit(1, "", "")} \cup RaisedReplies

\* text.strip(), for the texts of the model
Strip(text) ==
    CASE text = " " -> ""
      [] text = " M README.md" -> "M README.md"
      [] text = "fatal: not a git repository " -> "fatal: not a git repository"
      [] OTHER -> text

\* phrase in text, for the texts and phrases of the model
Contains(text, phrase) ==
    <<text, phrase>> \in
        {<<"Already up to date.", "Already up to date">>,
         <<"Already up to date", "Already up to date">>,
         <<"Already up-to-date.", "Already up-to-date">>,
         <<"Already up-to-date", "Already up-to-date">>,
         <<"Updating 1234abc..5678def Fast-forward", "Fast-forward">>,
         <<"Fast-forward", "Fast-forward">>,
         <<"Operation timed out", "timed out">>}

\* check_git_available
CheckGitAvailable(reply) == reply.kind = "exit" /\ reply.rc = 0

GetRepositoryStatusIgnoresOutput(reply) ==
    CASE reply.kind = "exit" /\ reply.rc # 0 ->
             [raised |-> FALSE, is_clean |-> FALSE, msg |-> "Unable to get status"]
      [] reply.kind = "exit" /\ reply.rc = 0 ->
             [raised |-> FALSE, is_clean |-> TRUE, msg |-> "Clean"]
      [] reply.kind = "timeout" ->
             [raised |-> FALSE, is_clean |-> FALSE, msg |-> "Timeout checking status"]
      [] reply.kind = "suberror" ->
             [raised |-> FALSE, is_clean |-> FALSE, msg |-> "Error checking status"]
      [] OTHER ->
             [raised |-> TRUE, is_clean |-> FALSE, msg |-> "OSError"]

\* get_repository_status: (is_clean, status_message), or the exception that
\* neither except clause catches
GetRepositoryStatus(reply) ==
    CASE reply.kind = "exit" /\ reply.rc # 0 ->
             [raised |-> FALSE, is_clean |-> FALSE, msg |-> "Unable to get status"]
      [] reply.kind = "exit" /\ reply.rc = 0 /\ Strip(reply.stdout) = "" ->
             [raised |-> FALSE, is_clean |-> TRUE, msg |-> "Clean"]
      [] reply.kind = "exit" /\ reply.rc = 0 /\ Strip(reply.stdout) # "" ->
             [raised |-> FALSE, is_clean |-> FALSE, msg |-> "Uncommitted changes"]
      [] reply.kind = "timeout" ->
             [raised |-> FALSE, is_clean |-> FALSE, msg |-> "Timeout checking status"]
      [] reply.kind = "suberror" ->
             [raised |-> FALSE, is_clean |-> FALSE, msg |-> "Error checking status"]
      [] OTHER ->
             [raised |-> TRUE, is_clean |-> FALSE, msg |-> "OSError"]

\* What `git status --porcelain` can do in repository r: when it runs to
\* exit 0 it prints the changes of the working tree, and nothing but blanks
\* when there is none.
StatusRepliesIn(r) ==
    {reply \in StatusReplies :
        reply.kind = "exit" /\ reply.rc = 0 =>
            (Strip(reply.stdout) # "" <=> r \in dirty)}

HasUpstreamIgnoresExit(reply) ==
    CASE reply.kind = "exit" -> "true"
      [] reply.kind \in {"timeout", "suberror"} -> "false"
      [] OTHER -> "raise"

\* has_upstream: "true", "false", or "raise" for an exception it lets pass
HasUpstream(reply) ==
    CASE reply.kind = "exit" -> IF reply.rc = 0 THEN "true" ELSE "false"
      [] reply.kind \in {"timeout", "suberror"} -> "false"
      [] OTHER -> "raise"

\* The result of a pull_repository without one of its branches.
PullRepositoryWithout(reply, branch) ==
    CASE reply.kind = "exit" /\ reply.rc = 0 ->
             IF \/ Contains(Strip(reply.stdout), "Already up to date")
                \/ /\ branch # "hyphenated"
                   /\ Contains(Strip(reply.stdout), "Already up-to-date")
             THEN [success |-> TRUE, message |-> "Already up to date"]
             ELSE [success |-> TRUE, message |-> "Successfully updated"]
      [] reply.kind = "exit" /\ reply.rc # 0 ->
             [success |-> FALSE,
              message |-> IF Strip(reply.stderr) # "" \/ branch = "stdout"
                          THEN Strip(reply.stderr)
                          ELSE Strip(reply.stdout)]
      [] reply.kind = "timeout" /\ branch # "TimeoutExpired" ->
             [success |-> FALSE, message |-> "Operation timed out"]
      [] reply.kind \in {"timeout", "suberror"} ->
             [success |-> FALSE, message |-> "Git error: SubprocessError"]
      [] OTHER ->
             [success |-> FALSE, message |-> "Unexpected error: OSError"]

\* pull_repository that knows one spelling of "Already up to date" only
PullRepositoryOneSpelling(reply) == PullRepositoryWithout(reply, "hyphenated")

\* pull_repository that never falls back on the standard output
PullRepositoryStderrOnly(reply) == PullRepositoryWithout(reply, "stdout")

\* pull_repository whose SubprocessError clause catches the timeout too
PullRepositoryTimeoutUncaught(reply) == PullRepositoryWithout(reply, "TimeoutExpired")

\* pull_repository: (success, message)
PullRepository(reply) ==
    CASE reply.kind = "exit" /\ reply.rc = 0 ->
             IF \/ Contains(Strip(reply.stdout), "Already up to date")
                \/ Contains(Strip(reply.stdout), "Already up-to-date")
             THEN [success |-> TRUE, message |-> "Already up to date"]
             ELSE [success |-> TRUE, message |-> "Successfully updated"]
      [] reply.kind = "exit" /\ reply.rc # 0 ->
             [success |-> FALSE,
              message |-> IF Strip(reply.stderr) # "" THEN Strip(reply.stderr)
                          ELSE Strip(reply.stdout)]
      [] reply.kind = "timeout" ->
             [success |-> FALSE, message |-> "Operation timed out"]
      [] reply.kind = "suberror" ->
             [success |-> FALSE, message |-> "Git error: SubprocessError"]
      [] OTHER ->
             [success |-> FALSE, message |-> "Unexpected error: OSError"]

\* commits_pulled of the RepoStatus that gittyup.git_operations.pull_repository
\* builds from the output of a pull that exited 0: zero when the output
\* says "Already up to date", else the number of commits the change summary
\* gives, 1 when it gives no number (as for every output of the model).
CommitsPulled(output) ==
    IF \/ Contains(output, "Already up to date")
       \/ Contains(output, "Already up-to-date")
    THEN 0
    ELSE 1

---------------------------------------------------------------------------
(* cli.main, from the git check on.                                         *)

Issue(cmd, reply) == Append(commands, [repo |-> cur, cmd |-> cmd, reply |-> reply])
Report(state, message) ==
    Append(outcomes, [repo |-> cur, state |-> state, message |-> message])

\* `if skip_dirty_repos and not dry_run`
StatusWanted == skip_dirty /\ ~dry_run

\* An exception no handler of main catches ends the process with status 1.
Crash ==
    /\ pc' = "crashed"
    /\ exit_code' = 1

\* main that reports a missing git and goes on to the scan
GitCheckGoesOn ==
    /\ pc = "git_check"
    /\ \E reply \in VersionReplies : commands' = Issue("version", reply)
    /\ pc' = "scan"
    /\ UNCHANGED <<dry_run, skip_dirty, strategy, dirty,
                   scans, found, cur, outcomes,
                   updated_count, skipped_count, error_count, summary_printed,
                   exit_code>>
    /\ UNCHANGED <<scanVars, statsVars, configVars>>

\* GitOperations.ensure_git_available(), and SystemExit(1) when it raises.
GitCheck ==
    /\ pc = "git_check"
    /\ \E reply \in VersionReplies :
           /\ commands' = Issue("version", reply)
           /\ IF CheckGitAvailable(reply)
              THEN /\ pc' = "scan"
                   /\ exit_code' = exit_code
              ELSE /\ pc' = "done"
                   /\ exit_code' = 1
    /\ UNCHANGED <<dry_run, skip_dirty, strategy, dirty,
                   scans, found, cur, outcomes,
                   updated_count, skipped_count, error_count, summary_printed>>
    /\ UNCHANGED <<scanVars, statsVars, configVars>>

\* main without the early return for an empty list: the loop runs over
\* nothing and the summary follows
RunScanNoEarlyReturn ==
    /\ pc = "scan"
    /\ \E r \in {-1} \cup (0..MaxRepos) :
           /\ scans' = Append(scans, r)
           /\ IF r = -1
              THEN /\ pc' = "done"
                   /\ exit_code' = 1
                   /\ UNCHANGED <<found, dirty, cur>>
              ELSE /\ pc' = "status"
                   /\ exit_code' = exit_code
                   /\ found' = r
                   /\ dirty' \in SUBSET (1..r)
                   /\ cur' = 1
    /\ UNCHANGED <<dry_run, skip_dirty, strategy,
                   commands, outcomes, updated_count,
                   skipped_count, error_count, summary_printed>>
    /\ UNCHANGED <<scanVars, statsVars, configVars>>

\* scanner.scan(): ScanError ends the run with status 1, an empty list ends
\* it with status 0, anything else starts the loop at the first repository.
\* Each repository found has a working tree with or without changes.
RunScan ==
    /\ pc = "scan"
    /\ \E r \in {-1} \cup (0..MaxRepos) :
           /\ scans' = Append(scans, r)
           /\ CASE r = -1 -> /\ pc' = "done"
                             /\ exit_code' = 1
                             /\ UNCHANGED <<found, dirty, cur>>
                [] r = 0 -> /\ pc' = "done"
                            /\ exit_code' = 0
                            /\ found' = 0
                            /\ UNCHANGED <<dirty, cur>>
                [] OTHER -> /\ pc' = "status"
                            /\ exit_code' = exit_code
                            /\ found' = r
                            /\ dirty' \in SUBSET (1..r)
                            /\ cur' = 1
    /\ UNCHANGED <<dry_run, skip_dirty, strategy,
                   commands, outcomes, updated_count,
                   skipped_count, error_count, summary_printed>>
    /\ UNCHANGED <<scanVars, statsVars, configVars>>

\* Top of the loop body: the status check of the repository at `cur`.
CheckStatus ==
    /\ pc = "status"
    /\ cur <= found
    /\ IF ~StatusWanted
       THEN /\ pc' = "upstream"
            /\ UNCHANGED <<cur, commands, outcomes, skipped_count, exit_code>>
       ELSE \E reply \in StatusRepliesIn(cur) :
                LET st == GetRepositoryStatus(reply)
                IN  /\ commands' = Issue("status", reply)
                    /\ IF st.raised
                       THEN /\ Crash
                            /\ UNCHANGED <<cur, outcomes, skipped_count>>
                       ELSE IF ~st.is_clean
                       THEN /\ outcomes' = Report("Skipped", st.msg)
                            /\ skipped_count' = skipped_count + 1
                            /\ cur' = cur + 1
                            /\ UNCHANGED <<pc, exit_code>>
                       ELSE /\ pc' = "upstream"
                            /\ UNCHANGED <<cur, outcomes, skipped_count, exit_code>>
    /\ UNCHANGED <<dry_run, skip_dirty, strategy, dirty,
                   scans, found, updated_count,
                   error_count, summary_printed>>
    /\ UNCHANGED <<scanVars, statsVars, configVars>>

\* `if not GitOperations.has_upstream(repo)`
CheckUpstream ==
    /\ pc = "upstream"
    /\ \E reply \in UpstreamReplies :
           LET up == HasUpstream(reply)
           IN  /\ commands' = Issue("upstream", reply)
               /\ CASE up = "raise" ->
                           /\ Crash
                           /\ UNCHANGED <<cur, outcomes, skipped_count>>
                    [] up = "false" ->
                           /\ outcomes' = Report("Skipped", "No upstream configured")
                           /\ skipped_count' = skipped_count + 1
                           /\ cur' = cur + 1
                           /\ pc' = "status"
                           /\ exit_code' = exit_code
                    [] OTHER ->
                           /\ pc' = "pull"
                           /\ UNCHANGED <<cur, outcomes, skipped_count, exit_code>>
    /\ UNCHANGED <<dry_run, skip_dirty, strategy, dirty,
                   scans, found, updated_count,
                   error_count, summary_printed>>
    /\ UNCHANGED <<scanVars, statsVars, configVars>>

\* The rest of the loop body with another test in the place of `if dry_run`.
PullOrSimulateWhen(simulate) ==
    /\ pc = "pull"
    /\ IF simulate
       THEN /\ outcomes' = Report("DryRun", "would pull")
            /\ UNCHANGED <<commands, updated_count, error_count>>
       ELSE \E reply \in PullReplies :
                LET res == PullRepository(reply)
                IN  /\ commands' = Issue("pull", reply)
                    /\ IF res.success
                       THEN /\ outcomes' = Report("Success", res.message)
                            /\ updated_count' = updated_count + 1
                            /\ error_count' = error_count
                       ELSE /\ outcomes' = Report("Failed", res.message)
                            /\ error_count' = error_count + 1
                            /\ updated_count' = updated_count
    /\ cur' = cur + 1
    /\ pc' = "status"
    /\ UNCHANGED <<dry_run, skip_dirty, strategy, dirty,
                   scans, found, skipped_count,
                   summary_printed, exit_code>>
    /\ UNCHANGED <<scanVars, statsVars, configVars>>

\* main without the dry-run test before the pull
PullOrSimulateAlwaysPulls == PullOrSimulateWhen(FALSE)

\* The rest of the loop body: the dry-run notice, or the pull and its
\* success or error branch.
PullOrSimulate ==
    /\ pc = "pull"
    /\ IF dry_run
       THEN /\ outcomes' = Report("DryRun", "would pull")
            /\ UNCHANGED <<commands, updated_count, error_count>>
       ELSE \E reply \in PullReplies :
                LET res == PullRepository(reply)
                IN  /\ commands' = Issue("pull", reply)
                    /\ IF res.success
                       THEN /\ outcomes' = Report("Success", res.message)
                            /\ updated_count' = updated_count + 1
                            /\ error_count' = error_count
                       ELSE /\ outcomes' = Report("Failed", res.message)
                            /\ error_count' = error_count + 1
                            /\ updated_count' = updated_count
    /\ cur' = cur + 1
    /\ pc' = "status"
    /\ UNCHANGED <<dry_run, skip_dirty, strategy, dirty,
                   scans, found, skipped_count,
                   summary_printed, exit_code>>
    /\ UNCHANGED <<scanVars, statsVars, configVars>>

\* main that exits on errors before it prints the summary
FinishExitsFirst ==
    /\ pc = "status"
    /\ cur > found
    /\ summary_printed' = (~dry_run /\ error_count = 0)
    /\ exit_code' = IF error_count > 0 THEN 1 ELSE 0
    /\ pc' = "done"
    /\ UNCHANGED <<dry_run, skip_dirty, strategy, dirty,
                   scans, found, cur, commands, outcomes,
                   updated_count, skipped_count, error_count>>
    /\ UNCHANGED <<scanVars, statsVars, configVars>>

\* After the loop: the summary (not in a dry run) and the exit status.
Finish ==
    /\ pc = "status"
    /\ cur > found
    /\ summary_printed' = ~dry_run
    /\ exit_code' = IF error_count > 0 THEN 1 ELSE 0
    /\ pc' = "done"
    /\ UNCHANGED <<dry_run, skip_dirty, strategy, dirty,
                   scans, found, cur, commands, outcomes,
                   updated_count, skipped_count, error_count>>
    /\ UNCHANGED <<scanVars, statsVars, configVars>>

ScanIdle ==
    /\ rootKind = "missing"
    /\ entries = [n \in Nodes |-> [kind |-> "absent", cls |-> "normal", git |-> "none"]]
    /\ max_depth = 0
    /\ exclude_patterns = {}
    /\ scan_pc = "idle"
    /\ stack = <<>>
    /\ repositories = <<>>
    /\ scan_result = NoResult
    /\ visits = [n \in Nodes |-> 0]
    /\ listed = {}
    /\ faulted = {}

Init ==
    /\ pc = "git_check"
    /\ dry_run \in BOOLEAN
    /\ skip_dirty \in BOOLEAN
    /\ strategy \in UpdateStrategies
    /\ scans = <<>>
    /\ found = 0
    /\ dirty = {}
    /\ cur = 0
    /\ commands = <<>>
    /\ outcomes = <<>>
    /\ updated_count = 0
    /\ skipped_count = 0
    /\ error_count = 0
    /\ summary_printed = FALSE
    /\ exit_code = -1
    /\ ScanIdle
    /\ StatsIdle
    /\ ConfigIdle

Next == GitCheck \/ RunScan \/ CheckStatus \/ CheckUpstream \/ PullOrSimulate \/ Finish

Spec == Init /\ [][Next]_vars

---------------------------------------------------------------------------
(* SummaryStats (models.py): a fresh object and calls of add_result on it.  *)

\* RepoState
RepoStates == {"success", "skipped", "failed", "dry_run"}

\* The messages a result carries.
ResultMessages ==
    {"Already up to date", "Already up to date.", "Already up-to-date",
     "Fast-forward"}

\* RepoStatus, by the fields add_result reads
RepoStatuses ==
    [state : RepoStates, message : ResultMessages, commits_pulled : 0..MaxCommits]

\* add_result with a case for every state: a DryRun result counts as skipped
AddResultCountsDryRun(st, result) ==
    LET counter ==
            CASE result.state = "success" ->
                     IF /\ result.commits_pulled = 0
                        /\ Contains(result.message, "Already up to date")
                     THEN "repos_already_up_to_date"
                     ELSE "repos_updated"
              [] result.state = "failed" -> "repos_failed"
              [] OTHER -> "repos_skipped"
    IN  [st EXCEPT !.results = Append(@, result), ![counter] = @ + 1]

AddResultIgnoresCommits(st, result) ==
    LET counter ==
            CASE result.state = "success" ->
                     IF Contains(result.message, "Already up to date")
                     THEN "repos_already_up_to_date"
                     ELSE "repos_updated"
              [] result.state = "skipped" -> "repos_skipped"
              [] result.state = "failed" -> "repos_failed"
              [] OTHER -> "none"
        appended == [st EXCEPT !.results = Append(@, result)]
    IN  IF counter = "none" THEN appended
        ELSE [appended EXCEPT ![counter] = @ + 1]

\* add_result: the result is appended, and the `match` on its state
\* increments one counter, or none when no case matches.
AddResult(st, result) ==
    LET counter ==
            CASE result.state = "success" ->
                     IF /\ result.commits_pulled = 0
                        /\ Contains(result.message, "Already up to date")
                     THEN "repos_already_up_to_date"
                     ELSE "repos_updated"
              [] result.state = "skipped" -> "repos_skipped"
              [] result.state = "failed" -> "repos_failed"
              [] OTHER -> "none"
        appended == [st EXCEPT !.results = Append(@, result)]
    IN  IF counter = "none" THEN appended
        ELSE [appended EXCEPT ![counter] = @ + 1]

\* stats.add_result(result), for any result
CallAddResult ==
    /\ Len(stats.results) < MaxResults
    /\ \E result \in RepoStatuses :
           /\ stats' = AddResult(stats, result)
           /\ added' = Append(added, result)
    /\ UNCHANGED <<scanVars, mainVars, configVars>>

StatsInit ==
    /\ StatsIdle
    /\ MainIdle
    /\ ScanIdle
    /\ ConfigIdle

StatsNext == CallAddResult

StatsSpec == StatsInit /\ [][StatsNext]_vars

---------------------------------------------------------------------------
(* Config (config.py) and the part of cli.main that resolves it: Config(),  *)
(* the user file, the local file, the command line, validate().  A dict is  *)
(* a function from the keys it holds.                                       *)

EmptyDict == [k \in {} |-> 0]
Members(s) == {s[i] : i \in 1..Len(s)}

\* What yaml.safe_load gives for a configuration file; the empty dict
\* stands for a missing or empty file too, which merges nothing.
FileConfigs ==
    {EmptyDict,
     [verbose |-> TRUE],
     [max_depth |-> 3, exclude_patterns |-> <<"foo">>],
     [skip_dirty |-> FALSE, exclude_patterns |-> <<"venv", "foo">>],
     [max_depth |-> 7, strategy |-> "fetch"],
     [exclude_patterns |-> <<"tmp", "tmp">>]}

\* The options the user passes, by the parameter of main each one sets:
\* --max-depth N, --exclude P (repeatable), --skip-dirty/--no-skip-dirty,
\* -v, -q.  main rejects -v together with -q before it builds the Config.
CommandLines ==
    {EmptyDict,
     [max_depth |-> 5, verbose |-> TRUE],
     [exclude |-> <<"bar", "bar">>],
     [skip_dirty |-> TRUE, exclude |-> <<"node_modules", "bar">>],
     [quiet |-> TRUE],
     [max_depth |-> 0]}

\* The dict merge_cli_args merges: main's cli_args without the entries that
\* are None.  An option with no default of its own is None when it is not
\* passed; the flags -v and -q are False when they are not passed.
CliConfig(line) ==
    LET keys == (DOMAIN line \cap {"max_depth", "skip_dirty"})
                    \cup (IF "exclude" \in DOMAIN line
                          THEN {"exclude_patterns"} ELSE {})
                    \cup {"verbose", "quiet"}
    IN  [k \in keys |->
            CASE k = "exclude_patterns" -> line.exclude
              [] k \in {"verbose", "quiet"} -> k \in DOMAIN line
              [] OTHER -> line[k]]

\* _merge_config on the dict cfg and the list lst that is its
\* "exclude_patterns" entry: the patterns not in the list when the merge
\* starts are appended to the list itself, other values replace or add.
MergeConfig(cfg, lst, new) ==
    LET keys == DOMAIN new \ {"exclude_patterns"}
        existing == Members(lst)
        Fresh(p) == p \notin existing
    IN  [config |-> [k \in DOMAIN cfg \cup keys |->
                        IF k \in keys THEN new[k] ELSE cfg[k]],
         list |-> IF "exclude_patterns" \in DOMAIN new
                  THEN lst \o SelectSeq(new.exclude_patterns, Fresh)
                  ELSE lst]

\* validate(): the tests that the values of these dicts can fail
Validate(cfg) ==
    IF cfg.max_depth < 1 THEN "max_depth must be a positive integer"
    ELSE IF cfg.verbose /\ cfg.quiet
    THEN "Cannot use both verbose and quiet modes simultaneously"
    ELSE "ok"

\* The keys a command line specifies
PassedKeys(line) ==
    {IF k = "exclude" THEN "exclude_patterns" ELSE k : k \in DOMAIN line}

\* One merge into the object, recorded as coming from `source`, which
\* specified the keys in `given`.
Merge(source, dict, given) ==
    LET m == MergeConfig(config, exclude_list, dict)
    IN  /\ config' = m.config
        /\ exclude_list' = m.list
        /\ merged' = Append(merged, [from |-> source, dict |-> dict,
                                     given |-> given])

\* cfg = Config(): self.config = self.DEFAULTS.copy()
Construct ==
    /\ cfg_pc \in {"idle", "resolved", "error"}
    /\ instances < MaxConfigs
    /\ instances' = instances + 1
    /\ config' = ScalarDefaults
    /\ list_at_new' = exclude_list
    /\ merged' = <<>>
    /\ cfg_pc' = "new"
    /\ UNCHANGED <<exclude_list, scanVars, mainVars, statsVars>>

\* load_all_configs: the user file ...
LoadUser ==
    /\ cfg_pc = "new"
    /\ \E d \in FileConfigs : Merge("user", d, DOMAIN d)
    /\ cfg_pc' = "user"
    /\ UNCHANGED <<instances, list_at_new, scanVars, mainVars, statsVars>>

\* ... and then the local file
LoadLocal ==
    /\ cfg_pc = "user"
    /\ \E d \in FileConfigs : Merge("local", d, DOMAIN d)
    /\ cfg_pc' = "local"
    /\ UNCHANGED <<instances, list_at_new, scanVars, mainVars, statsVars>>

\* cfg.merge_cli_args(**cli_args) and cfg.validate()
MergeCliArgs ==
    /\ cfg_pc = "local"
    /\ \E line \in CommandLines :
           /\ Merge("cli", CliConfig(line), PassedKeys(line))
           /\ cfg_pc' = IF Validate(MergeConfig(config, exclude_list,
                                                CliConfig(line)).config) = "ok"
                        THEN "resolved" ELSE "error"
    /\ UNCHANGED <<instances, list_at_new, scanVars, mainVars, statsVars>>

ConfigInit ==
    /\ ConfigIdle
    /\ MainIdle
    /\ ScanIdle
    /\ StatsIdle

ConfigNext == Construct \/ LoadUser \/ LoadLocal \/ MergeCliArgs

ConfigSpec == ConfigInit /\ [][ConfigNext]_vars


---------------------------------------------------------------------------
(* Properties of RepositoryScanner.scan, checked under ScanSpec.            *)

ScanDone == scan_pc = "done"
ScanReturned == scan_pc = "done" /\ scan_result.kind = "ok"

SeqSet(s) == {s[i] : i \in 1..Len(s)}
ResultSet == SeqSet(scan_result.repos)

RECURSIVE Beneath(_)
\* the entries below n, at any depth
Beneath(n) ==
    LET cs == Children(n)
        RECURSIVE Union(_)
        Union(S) == IF S = {} THEN {}
                    ELSE LET c == CHOOSE x \in S : TRUE
                         IN  Beneath(c) \cup Union(S \ {c})
    IN  cs \cup Union(cs)

\* n directly contains a .git directory
HoldsGitDir(n) == Present(n) /\ entries[n].kind # "file" /\ entries[n].git = "dir"

\* the name of n is in the exclusion set, begins with a dot, or n is a
\* symbolic link
Shunned(n) ==
    \/ entries[n].cls = "hidden"
    \/ NameOf(n) \in DefaultExcludes
    \/ NameOf(n) \in exclude_patterns
    \/ entries[n].kind = "link"

\* n is a real directory that the walk from the root comes to when depth
\* does not stop it: nothing on the way is shunned or is itself a repository
OnTheWay(n) ==
    /\ rootKind = "dir"
    /\ \A m \in ({n} \cup Ancestors(n)) \ {Root} :
           entries[m].kind = "dir" /\ ~Shunned(m)
    /\ \A a \in Ancestors(n) : ~HoldsGitDir(a)

\* C1: no returned path lies strictly inside another returned repository,
\* and once a directory is recorded as a repository it is never listed and
\* nothing beneath it is scanned or recorded.
C1_NoNestedRepositories ==
    /\ \A n \in Nodes :
           PathOf(n) \in SeqSet(repositories) =>
               /\ n \notin listed
               /\ \A m \in Beneath(n) :
                      visits[m] = 0 /\ PathOf(m) \notin SeqSet(repositories)
    /\ ScanReturned =>
           \A n \in Nodes :
               PathOf(n) \in ResultSet =>
                   \A m \in Beneath(n) : PathOf(m) \notin ResultSet

\* a repository holding another repository was returned
C1_Witness ==
    /\ ScanReturned
    /\ \E n \in Nodes :
           /\ PathOf(n) \in ResultSet
           /\ \E m \in Beneath(n) :
                  /\ HoldsGitDir(m)
                  /\ entries[m].kind = "dir"
                  /\ ~Shunned(m)
                  /\ Depth(m) <= max_depth

\* C2: an entry with a dot name, an excluded name (custom or default) or
\* that is a symbolic link is never scanned, recorded or returned, and
\* neither is anything beneath it.
C2_ShunnedNeverScanned ==
    \A n \in Nodes \ {Root} :
        Present(n) /\ Shunned(n) =>
            \A m \in {n} \cup Beneath(n) :
                /\ visits[m] = 0
                /\ m \notin listed
                /\ PathOf(m) \notin SeqSet(repositories)
                /\ PathOf(m) \notin ResultSet

\* the root was listed and held a hidden, an excluded and a symlinked
\* entry between them, each a repository or holding one
C2_Witness ==
    /\ ScanReturned
    /\ Root \in listed
    /\ \E h, l \in Children(Root) :
           /\ entries[h].kind = "dir" /\ entries[h].cls = "hidden"
           /\ \E x \in Beneath(h) :
                  /\ entries[x].kind = "dir"
                  /\ NameOf(x) \in exclude_patterns
                  /\ HoldsGitDir(x)
           /\ entries[l].kind = "link" /\ HoldsGitDir(l)

\* the scan raised no OS error at n or at a directory above n
Unfaulted(n) == \A f \in faulted : f.dir \notin {n} \cup Ancestors(n)

\* C3: a repository that the walk from the root comes to, through
\* directories that could be scanned, is returned if and only if its depth
\* is at most max_depth.
C3_MaxDepthRespected ==
    ScanReturned =>
        \A n \in Nodes :
            HoldsGitDir(n) /\ OnTheWay(n) /\ Unfaulted(n) =>
                (PathOf(n) \in ResultSet <=> Depth(n) <= max_depth)

\* The same in a scan during which no OS error is raised at all.
MaxDepthRespectedWithoutFaults ==
    ScanReturned /\ faulted = {} =>
        \A n \in Nodes :
            HoldsGitDir(n) /\ OnTheWay(n) =>
                (PathOf(n) \in ResultSet <=> Depth(n) <= max_depth)

\* C4: when root_path is missing or is a file, scan raises ScanError,
\* returns no list and scans nothing.
C4_BadRootRaises ==
    ScanDone /\ rootKind \in {"missing", "file"} =>
        /\ scan_result.kind = "ScanError"
        /\ scan_result.msg \in {"Path does not exist", "Path is not a directory"}
        /\ (scan_result.msg = "Path does not exist") <=> (rootKind = "missing")
        /\ \A n \in Nodes : visits[n] = 0

\* scan was called on a file
C4_Witness == ScanDone /\ rootKind = "file" /\ scan_result.kind = "ScanError"

\* C5: the returned list is in ascending path order and holds exactly the
\* recorded repositories, whatever order iterdir() produced them in.
C5_ResultSorted ==
    ScanReturned =>
        /\ \A i, j \in 1..Len(scan_result.repos) :
               i < j => PathLess(scan_result.repos[i], scan_result.repos[j])
        /\ Len(scan_result.repos) = Len(repositories)
        /\ ResultSet = SeqSet(repositories)

\* two or more repositories were found in an order that is not the sorted one
C5_Witness ==
    /\ ScanReturned
    /\ Len(scan_result.repos) >= 2
    /\ scan_result.repos # repositories

\* C6: a root directory with no entries yields the empty list, and a root
\* that holds a .git directory yields exactly the root and is never listed
\* (in both cases provided the .git test on the root raises no OS error).
C6_EmptyRootAndRootRepository ==
    ScanDone /\ rootKind = "dir" /\ [dir |-> Root, at |-> "probe"] \notin faulted =>
        /\ (entries[Root].git = "none" /\ \A n \in Nodes \ {Root} : ~Present(n))
               => scan_result = Returned(<<>>)
        /\ entries[Root].git = "dir" =>
               /\ scan_result = Returned(<< PathOf(Root) >>)
               /\ listed = {}
               /\ \A n \in Nodes \ {Root} : visits[n] = 0

\* the root was a repository with a repository among its entries
C6_Witness ==
    /\ ScanReturned
    /\ entries[Root].git = "dir"
    /\ \E n \in Children(Root) :
           HoldsGitDir(n) /\ entries[n].kind = "dir" /\ ~Shunned(n)

\* C7: when an OS error is raised while a subdirectory is scanned, scan
\* still returns a list, nothing at or beneath that subdirectory is in it,
\* and every repository in the other directories is.
C7_ErrorInSubdirectoryIsLocal ==
    ScanDone /\ (\E f \in faulted : f.dir # Root) =>
        /\ scan_result.kind = "ok"
        /\ \A f \in faulted :
               \A m \in {f.dir} \cup Beneath(f.dir) : PathOf(m) \notin ResultSet
        /\ \A n \in Nodes :
               /\ HoldsGitDir(n) /\ OnTheWay(n) /\ Depth(n) <= max_depth
               /\ \A f \in faulted : n \notin {f.dir} \cup Beneath(f.dir)
               => PathOf(n) \in ResultSet

\* C8: when listing the root directory itself raises an OS error, scan
\* raises ScanError instead of returning a list.
C8_RootListingErrorRaises ==
    ScanDone /\ [dir |-> Root, at |-> "list"] \in faulted =>
        scan_result.kind = "ScanError"

---------------------------------------------------------------------------
(* Properties of cli.main, checked under Spec.                              *)

CommandsFor(r) == {i \in 1..Len(commands) : commands[i].repo = r}
OutcomesFor(r) == {k \in 1..Len(outcomes) : outcomes[k].repo = r}
NoPullFor(r) == \A i \in CommandsFor(r) : commands[i].cmd # "pull"
OnlyOutcome(r, state, message) ==
    /\ Cardinality(OutcomesFor(r)) = 1
    /\ \A k \in OutcomesFor(r) :
           outcomes[k].state = state /\ outcomes[k].message = message

\* `git status --porcelain` ran and printed something other than blanks
ReportsChanges(c) ==
    /\ c.cmd = "status"
    /\ c.reply.kind = "exit"
    /\ c.reply.rc = 0
    /\ c.reply.stdout \notin {"", " "}

\* `git rev-parse --abbrev-ref @{upstream}` ran and exited non-zero
ReportsNoUpstream(c) ==
    c.cmd = "upstream" /\ c.reply.kind = "exit" /\ c.reply.rc # 0

\* C9: a repository whose status query reports uncommitted changes while
\* skip_dirty is true is reported once, as Skipped with the message
\* "Uncommitted changes", and no pull command is ever issued for it.
C9_DirtySkippedWithoutPull ==
    \A i \in 1..Len(commands) :
        ReportsChanges(commands[i]) /\ skip_dirty =>
            /\ OnlyOutcome(commands[i].repo, "Skipped", "Uncommitted changes")
            /\ NoPullFor(commands[i].repo)

\* the run ended, its first repository was dirty, its second was pulled
C9_Witness ==
    /\ pc = "done"
    /\ skip_dirty
    /\ \E i \in CommandsFor(1) : ReportsChanges(commands[i])
    /\ \E j \in CommandsFor(2) : commands[j].cmd = "pull"

\* C10: a clean repository whose upstream query finds no upstream is
\* reported once, as Skipped with the message "No upstream configured",
\* and no pull command is issued for it.
C10_NoUpstreamSkippedWithoutPull ==
    \A i \in 1..Len(commands) :
        ReportsNoUpstream(commands[i]) =>
            /\ OnlyOutcome(commands[i].repo, "Skipped", "No upstream configured")
            /\ NoPullFor(commands[i].repo)

\* the run ended, its first repository was found clean and had no upstream
C10_Witness ==
    /\ pc = "done"
    /\ \E i, j \in CommandsFor(1) :
           /\ commands[i].cmd = "status"
           /\ commands[i].reply = Exit(0, "", "")
           /\ ReportsNoUpstream(commands[j])

\* the pull commands among the commands
Pulls == {i \in 1..Len(commands) : commands[i].cmd = "pull"}
ExitedZero(c) == c.reply.kind = "exit" /\ c.reply.rc = 0
ExitedNonZero(c) == c.reply.kind = "exit" /\ c.reply.rc # 0
SaysUpToDate(text) ==
    Contains(text, "Already up to date") \/ Contains(text, "Already up-to-date")

\* C11: a pull that exits 0 with a standard output containing "Already up
\* to date" or "Already up-to-date" gives its repository the one result
\* Success with the message "Already up to date" and no commits pulled; a
\* Success result of a pull with commits pulled never has that message.
C11_UpToDateIsSuccessWithoutCommits ==
    \A i \in Pulls :
        ExitedZero(commands[i]) =>
            LET r == commands[i].repo
                out == commands[i].reply.stdout
            IN  /\ SaysUpToDate(out) =>
                       /\ OnlyOutcome(r, "Success", "Already up to date")
                       /\ CommitsPulled(out) = 0
                /\ \A k \in OutcomesFor(r) :
                       outcomes[k].state = "Success" /\ CommitsPulled(out) > 0 =>
                           outcomes[k].message # "Already up to date"

\* the run ended after a pull that answered "Already up-to-date." and a pull
\* that fast-forwarded
C11_Witness ==
    /\ pc = "done"
    /\ \E i, j \in Pulls :
           /\ commands[i].reply = Exit(0, "Already up-to-date.", "")
           /\ ExitedZero(commands[j])
           /\ CommitsPulled(commands[j].reply.stdout) > 0

\* C12: a pull that exits 0 with a standard output that does not say
\* "Already up to date" gives its repository the one result Success, with a
\* positive number of commits pulled and a message that keeps the lines of
\* the output: "Fast-forward" is in the message when it is in the output.
C12_UpdateKeepsRawOutput ==
    \A i \in Pulls :
        LET r == commands[i].repo
            out == commands[i].reply.stdout
        IN  ExitedZero(commands[i]) /\ ~SaysUpToDate(out) =>
                /\ Cardinality(OutcomesFor(r)) = 1
                /\ CommitsPulled(out) > 0
                /\ \A k \in OutcomesFor(r) :
                       /\ outcomes[k].state = "Success"
                       /\ Contains(out, "Fast-forward") =>
                              Contains(outcomes[k].message, "Fast-forward")

\* C13 as claimed: a pull that exits non-zero gives its repository the one
\* result Failed whose error text is the standard-error text of the
\* command, or its standard-output text when the standard error is empty.
C13_FailedCarriesErrorText ==
    \A i \in Pulls :
        ExitedNonZero(commands[i]) =>
            OnlyOutcome(commands[i].repo, "Failed",
                        IF commands[i].reply.stderr # ""
                        THEN commands[i].reply.stderr
                        ELSE commands[i].reply.stdout)

\* C13, amended: the error text is the standard-error text without its
\* leading and trailing whitespace or, when nothing is left of it, the
\* standard-output text without its leading and trailing whitespace.
C13_FailedCarriesStrippedErrorText ==
    \A i \in Pulls :
        ExitedNonZero(commands[i]) =>
            OnlyOutcome(commands[i].repo, "Failed",
                        IF Strip(commands[i].reply.stderr) # ""
                        THEN Strip(commands[i].reply.stderr)
                        ELSE Strip(commands[i].reply.stdout))

\* the run ended after a failed pull that wrote to the standard error and a
\* failed pull that wrote a conflict to the standard output only
C13_Witness ==
    /\ pc = "done"
    /\ \E i, j \in Pulls :
           /\ commands[i].reply = Exit(1, "", "fatal: not a git repository ")
           /\ commands[j].reply = Exit(1, "CONFLICT (content): Merge conflict", " ")
           /\ \E k \in OutcomesFor(commands[j].repo) :
                  outcomes[k].message = "CONFLICT (content): Merge conflict"

\* C14: when the pull of a repository times out, the repository gets the
\* one result Failed with an error containing "timed out", the loop moves on
\* to the next repository of the list, and that repository is processed.
C14_PullTimeoutFailsAndRunGoesOn ==
    \A i \in Pulls :
        commands[i].reply.kind = "timeout" =>
            LET r == commands[i].repo
            IN  /\ Cardinality(OutcomesFor(r)) = 1
                /\ \A k \in OutcomesFor(r) :
                       /\ outcomes[k].state = "Failed"
                       /\ Contains(outcomes[k].message, "timed out")
                /\ cur > r
                /\ r < found /\ cur = r + 1 =>
                       pc \in {"status", "upstream", "pull", "crashed"}
                /\ r < found /\ (cur > r + 1 \/ pc = "done") =>
                       CommandsFor(r + 1) # {} /\ OutcomesFor(r + 1) # {}

\* the run ended, the pull of its first repository timed out and its second
\* repository was pulled
C14_Witness ==
    /\ pc = "done"
    /\ \E i, j \in Pulls :
           /\ commands[i].repo = 1
           /\ commands[i].reply.kind = "timeout"
           /\ commands[j].repo = 2
           /\ ExitedZero(commands[j])

\* a status query, upstream query or pull that timed out or could not be
\* launched
Faulted(c) ==
    /\ c.cmd \in {"status", "upstream", "pull"}
    /\ c.reply.kind \in {"timeout", "oserror"}

\* C15: when a status query, an upstream query or a pull of a repository
\* times out or cannot be launched, the repository gets the one result
\* Failed with an error text, no exception ends the run, and the loop moves
\* on past that repository.
C15_FaultsBecomeFailedResults ==
    \A i \in 1..Len(commands) :
        Faulted(commands[i]) =>
            LET r == commands[i].repo
            IN  /\ pc # "crashed"
                /\ Cardinality(OutcomesFor(r)) = 1
                /\ \A k \in OutcomesFor(r) :
                       outcomes[k].state = "Failed" /\ outcomes[k].message # ""
                /\ cur > r

\* the number of results of the given state that main reported
Reported(state) ==
    Cardinality({k \in 1..Len(outcomes) : outcomes[k].state = state})

\* main's counters agree with the results it reported
CountersAgree ==
    /\ updated_count = Reported("Success")
    /\ skipped_count = Reported("Skipped")
    /\ error_count = Reported("Failed")

\* main has left the loop, by its end or by an exception
RunEnded == pc \in {"done", "crashed"}

\* C16: in a run that is not a dry run, no repository is ever given two
\* results, and once the run has ended every repository the scan returned
\* has exactly one result (Success, Skipped or Failed), each counted once in
\* the counter of its kind, so that updated + skipped + errors equals the
\* number of repositories found.
C16_EveryRepositoryCountedOnce ==
    ~dry_run =>
        /\ \A r \in 1..MaxRepos : Cardinality(OutcomesFor(r)) <= 1
        /\ CountersAgree
        /\ RunEnded /\ found > 0 =>
               /\ \A r \in 1..found :
                      /\ Cardinality(OutcomesFor(r)) = 1
                      /\ \A k \in OutcomesFor(r) :
                             outcomes[k].state \in {"Success", "Skipped", "Failed"}
               /\ updated_count + skipped_count + error_count = found

\* The same of the runs that no exception ends.
EveryRepositoryCountedOnceWhenCompleted ==
    ~dry_run =>
        /\ \A r \in 1..MaxRepos : Cardinality(OutcomesFor(r)) <= 1
        /\ CountersAgree
        /\ pc = "done" /\ found > 0 =>
               /\ \A r \in 1..found :
                      /\ Cardinality(OutcomesFor(r)) = 1
                      /\ \A k \in OutcomesFor(r) :
                             outcomes[k].state \in {"Success", "Skipped", "Failed"}
               /\ updated_count + skipped_count + error_count = found

\* the commands main issued for single repositories
RepoCommands ==
    {i \in 1..Len(commands) : commands[i].cmd \in {"status", "upstream", "pull"}}

\* the checks of git's availability among the commands
VersionChecks == {i \in 1..Len(commands) : commands[i].cmd = "version"}

\* `git --version` did not run to a zero exit status
GitUnavailable(c) ==
    c.cmd = "version" /\ ~(c.reply.kind = "exit" /\ c.reply.rc = 0)

\* C18: when the scan returns no repository, the run ends right after the
\* scan with exit status 0: no status query, upstream query or pull is
\* issued and no result is reported.
C18_NoRepositoriesEndsRun ==
    (scans # <<>> /\ scans[1] = 0) =>
        /\ pc = "done"
        /\ exit_code = 0
        /\ RepoCommands = {}
        /\ outcomes = <<>>
        /\ updated_count + skipped_count + error_count = 0

\* the scan was called and returned the empty list
C18_Witness == scans = <<0>> /\ pc = "done"

\* C19: git's availability is checked once, before the scanner is called
\* and before any command on a repository; when git is unavailable the run
\* ends with a non-zero exit status and neither the scanner nor any command
\* on a repository is ever called.
C19_GitCheckedBeforeScan ==
    /\ Cardinality(VersionChecks) <= 1
    /\ Len(scans) <= 1
    /\ (scans # <<>> \/ RepoCommands # {}) =>
           /\ VersionChecks = {1}
           /\ ~GitUnavailable(commands[1])
    /\ \A i \in VersionChecks :
           GitUnavailable(commands[i]) =>
               /\ pc = "done"
               /\ exit_code > 0
               /\ scans = <<>>
               /\ RepoCommands = {}
               /\ outcomes = <<>>

\* `git --version` could not be launched and the run has ended
C19_Witness ==
    /\ pc = "done"
    /\ \E i \in VersionChecks : commands[i].reply.kind = "oserror"

\* C20: a run that completes after one or more repositories failed has a
\* result for every repository, has printed the summary and ends with a
\* non-zero exit status, which is set no earlier than the summary is printed.
C20_FailuresReportedThenExitNonZero ==
    (pc # "crashed" /\ Reported("Failed") > 0) =>
        /\ exit_code # -1 => pc = "done" /\ summary_printed
        /\ pc = "done" =>
               /\ \A r \in 1..found : OutcomesFor(r) # {}
               /\ summary_printed
               /\ exit_code > 0

\* the run completed, its first repository failed and its second succeeded
C20_Witness ==
    /\ pc = "done"
    /\ found = 2
    /\ \E k \in OutcomesFor(1) : outcomes[k].state = "Failed"
    /\ \E k \in OutcomesFor(2) : outcomes[k].state = "Success"

\* the upstream queries that found an upstream
UpstreamFound ==
    {i \in 1..Len(commands) :
        commands[i].cmd = "upstream" /\ ExitedZero(commands[i])}

StrategyCommand(s) ==
    CASE s = "pull" -> <<"pull", "--all">>
      [] s = "fetch" -> <<"fetch", "--all">>
      [] s = "rebase" -> <<"pull", "--rebase">>

\* C22: the update command issued for a repository is the one of the
\* configured strategy, and a repository with a Success or Failed result
\* was issued exactly one update command.
C22_StrategySelectsCommand ==
    /\ \A i \in Pulls :
           Tail(Argv(commands[i].cmd)) = StrategyCommand(strategy)
    /\ \A k \in 1..Len(outcomes) :
           outcomes[k].state \in {"Success", "Failed"} =>
               Cardinality({i \in Pulls : commands[i].repo = outcomes[k].repo}) = 1

\* The same of the runs configured with the Pull strategy.
PullStrategyIssuesPullAll ==
    strategy = "pull" => C22_StrategySelectsCommand

\* C25: the dirty-state check precedes the upstream check: with skip_dirty
\* true, a repository with uncommitted changes (and so one that has no
\* upstream as well) is reported Skipped by the dirty-state check, never
\* with "No upstream configured", and no upstream query is issued for it.
C25_DirtyCheckPrecedesUpstream ==
    skip_dirty =>
        \A r \in dirty :
            /\ \A i \in CommandsFor(r) : commands[i].cmd # "upstream"
            /\ \A k \in OutcomesFor(r) :
                   /\ outcomes[k].state = "Skipped"
                   /\ outcomes[k].message # "No upstream configured"

\* The same of the runs that are not dry runs.
DirtyCheckPrecedesUpstreamOutsideDryRun ==
    ~dry_run => C25_DirtyCheckPrecedesUpstream

\* the successes main reported with a message other than "Already up to
\* date"
ReportedUpdated ==
    Cardinality({k \in 1..Len(outcomes) :
                    /\ outcomes[k].state = "Success"
                    /\ ~Contains(outcomes[k].message, "Already up to date")})

\* C26: in the summary of the run, a success whose message contains
\* "Already up to date" is not counted as updated; the number given as
\* updated is the number of the other successes.
C26_SummaryCountsUpdatedOnly ==
    summary_printed => updated_count = ReportedUpdated

\* What the summary gives as updated is the number of all the successes.
SummaryCountsEverySuccess ==
    summary_printed => updated_count = Reported("Success")

\* command j was issued for repository r before command i
EarlierFor(r, i) == {j \in 1..(i - 1) : commands[j].repo = r}

\* every pull follows an upstream query of its repository that found an
\* upstream and, with skip_dirty, a status query that found it clean
PullsAfterChecks ==
    \A i \in Pulls :
        LET r == commands[i].repo
        IN  /\ \E j \in EarlierFor(r, i) :
                   /\ commands[j].cmd = "upstream"
                   /\ HasUpstream(commands[j].reply) = "true"
            /\ skip_dirty =>
                   \E j \in EarlierFor(r, i) :
                       /\ commands[j].cmd = "status"
                       /\ GetRepositoryStatus(commands[j].reply).is_clean

\* the status query did not run to exit 0
StatusFailed(c) ==
    c.cmd = "status" /\ ~(c.reply.kind = "exit" /\ c.reply.rc = 0)

\* repository r has the one result Skipped and no pull
SkippedUnpulled(r) ==
    /\ Cardinality(OutcomesFor(r)) = 1
    /\ \A k \in OutcomesFor(r) : outcomes[k].state = "Skipped"
    /\ NoPullFor(r)

\* C27: in every run a pull is issued for a repository only after its
\* upstream query returned true and, with skip_dirty, only after its status
\* query succeeded and reported a clean working tree; a repository whose
\* status query fails or times out is skipped and never pulled.
C27_PullOnlyAfterChecks ==
    /\ PullsAfterChecks
    /\ \A i \in 1..Len(commands) :
           StatusFailed(commands[i]) => SkippedUnpulled(commands[i].repo)

\* The second part, of the status queries that `git` was launched for:
\* those that exit non-zero or time out.
FailedStatusSkippedWhenLaunched ==
    \A i \in 1..Len(commands) :
        StatusFailed(commands[i]) /\ commands[i].reply.kind # "oserror" =>
            SkippedUnpulled(commands[i].repo)

\* no body of _scan_directory ever ran on a symbolic link, no directory was
\* scanned twice, and the active calls are no deeper than max_depth + 1
ScanBounded ==
    /\ \A n \in Nodes :
           /\ visits[n] <= 1
           /\ IsSymlink(n) => visits[n] = 0
    /\ Len(stack) <= max_depth + 1

\* C30: scan terminates on every finite directory tree, trees with cycles
\* of symbolic links included: symbolic links are never followed, the
\* recursion is no deeper than max_depth allows and each directory is
\* visited at most once in a scan.
C30_ScanTerminates ==
    /\ <>(scan_pc = "done")
    /\ []ScanBounded

\* a scan has returned its list from a tree with a symbolic link to a
\* directory under the root and a directory it did scan
C30_Witness ==
    /\ scan_pc = "done"
    /\ scan_result.kind = "ok"
    /\ \E n, m \in Children(Root) :
           /\ IsSymlink(n)
           /\ visits[n] = 0
           /\ visits[m] = 1

---------------------------------------------------------------------------
(* Properties of SummaryStats.add_result, checked under StatsSpec.          *)

Counters ==
    {"repos_updated", "repos_already_up_to_date", "repos_skipped", "repos_failed"}

\* the step added one result and incremented the given counter only
IncrementsOnly(counter) ==
    \A c \in Counters :
        stats'[c] = stats[c] + (IF c = counter THEN 1 ELSE 0)

\* the result counts as already up to date
UpToDateResult(result) ==
    /\ result.commits_pulled = 0
    /\ Contains(result.message, "Already up to date")

\* C17: add_result on a Success result increments repos_already_up_to_date
\* only when commits_pulled is 0 and the message contains "Already up to
\* date", and repos_updated only for every other Success result; on a
\* Skipped result it increments repos_skipped only, on a Failed result
\* repos_failed only.
C17_AddResultClassifies ==
    [][LET result == stats'.results[Len(stats'.results)]
       IN  Len(stats'.results) = Len(stats.results) + 1 =>
               /\ result.state = "success" /\ UpToDateResult(result) =>
                      IncrementsOnly("repos_already_up_to_date")
               /\ result.state = "success" /\ ~UpToDateResult(result) =>
                      IncrementsOnly("repos_updated")
               /\ result.state = "skipped" => IncrementsOnly("repos_skipped")
               /\ result.state = "failed" => IncrementsOnly("repos_failed")]_vars

\* a result that says "Already up to date." with no commits and a result
\* that says the same with commits pulled were added, one counted in each
\* counter
C17_Witness ==
    /\ stats.repos_already_up_to_date = 1
    /\ stats.repos_updated = 1
    /\ \E i, j \in 1..Len(stats.results) :
           /\ stats.results[i] = [state |-> "success", commits_pulled |-> 0,
                                  message |-> "Already up to date."]
           /\ stats.results[j].state = "success"
           /\ stats.results[j].commits_pulled > 0
           /\ stats.results[j].message = "Already up to date"

\* the sum of the four counters
CounterSum ==
    stats.repos_updated + stats.repos_already_up_to_date
        + stats.repos_skipped + stats.repos_failed

\* the results added whose state is not DryRun
AddedCounted == {i \in 1..Len(added) : added[i].state # "dry_run"}

\* C28: after any sequence of add_result calls on a fresh SummaryStats,
\* results holds the added results in call order and the four counters sum
\* to the number of added results whose state is not DryRun; every call
\* changes at most one counter, by exactly +1, and leaves repos_found and
\* duration_seconds as they were.
C28_AddResultKeepsCount ==
    /\ [](stats.results = added /\ CounterSum = Cardinality(AddedCounted))
    /\ [][/\ \/ \A c \in Counters : stats'[c] = stats[c]
           \/ \E c \in Counters : IncrementsOnly(c)
        /\ stats'.repos_found = stats.repos_found
        /\ stats'.duration_seconds = stats.duration_seconds]_vars

\* a Skipped result and then a DryRun result were added: two results, one
\* counted
C28_Witness ==
    /\ Len(added) = 2
    /\ added[1].state = "skipped"
    /\ added[2].state = "dry_run"
    /\ stats.results = added
    /\ CounterSum = 1

---------------------------------------------------------------------------
(* Properties of Config, checked under ConfigSpec.                          *)

Resolved == cfg_pc \in {"resolved", "error"}

\* the merges whose source specified key k, and the last of them
Specifying(k) == {i \in 1..Len(merged) : k \in merged[i].given}
LastSpecifying(k) ==
    CHOOSE i \in Specifying(k) : \A j \in Specifying(k) : j <= i

\* the keys with one value, which every source may specify
ValueKeys ==
    (DOMAIN ScalarDefaults
        \cup UNION {merged[i].given : i \in 1..Len(merged)})
    \ {"exclude_patterns"}

\* key k holds the value of the highest source that specifies it
ByPrecedence(k) ==
    /\ k \in DOMAIN config
    /\ config[k] = IF Specifying(k) = {} THEN ScalarDefaults[k]
                   ELSE merged[LastSpecifying(k)].dict[k]

\* C23: once the configuration is resolved, every key holds the value given
\* by the highest source that specifies it, in the order command line,
\* local file, user file, defaults; a source that does not specify a key
\* (an option the user did not pass) leaves the lower value.
C23_ResolvedByPrecedence ==
    Resolved => \A k \in ValueKeys : ByPrecedence(k)

\* The same of the keys whose command-line option has no default.
PrecedenceOfOptionsWithoutDefault ==
    Resolved => \A k \in ValueKeys \ {"verbose", "quiet"} : ByPrecedence(k)

NoDuplicates(s) == \A i, j \in 1..Len(s) : s[i] = s[j] => i = j

\* the list holds what it held when the object was made and every pattern
\* merged since
ExcludePatternsKept ==
    /\ Members(list_at_new) \subseteq Members(exclude_list)
    /\ \A i \in 1..Len(merged) :
           "exclude_patterns" \in DOMAIN merged[i].dict =>
               Members(merged[i].dict.exclude_patterns)
                   \subseteq Members(exclude_list)

\* C24: after any sequence of merges, exclude_patterns holds every pattern
\* it held before each merge, every pattern supplied, and no pattern twice.
C24_ExcludePatternsUnion ==
    cfg_pc # "idle" => ExcludePatternsKept /\ NoDuplicates(exclude_list)

\* C29: a newly constructed Config holds exactly the default values and
\* exactly the seven default exclude patterns, whatever was merged into
\* the Config objects made before it.
C29_NewConfigHoldsDefaults ==
    cfg_pc = "new" =>
        /\ config = ScalarDefaults
        /\ exclude_list = DefaultExcludeList

\* The values other than the list do not leak.
NewConfigHoldsDefaultValues ==
    cfg_pc = "new" => config = ScalarDefaults

===========================================================================
